---------------------------- MODULE Spec2Model ----------------------------
(***************************************************************************)
(* The real-time synchronisation clients of the traffic dashboard.         *)
(*                                                                         *)
(* The repository holds two implementations of the client:                 *)
(*   - the hook useCityWebSocket (src/unnamed/part_011), which owns its    *)
(*     socket, reconnect timer, connection status and the store;           *)
(*   - the singleton WebSocketService (services/websocketService.ts)       *)
(*     together with its consumer hook useCityData (hooks/useCityData.ts), *)
(*     which holds the store.                                              *)
(* A page mounts one of them; the variable client says which.  The two do  *)
(* not share any state, so each behaviour follows one client.  A third     *)
(* value of client, "replay", follows the replay page (ReplayPage), which  *)
(* records the snapshots it is handed and plays them back.                 *)
(*                                                                         *)
(* The browser's WebSocket objects are the environment: socks holds the    *)
(* readyState of every socket that can still deliver an event.             *)
(***************************************************************************)
EXTENDS Integers, Sequences, FiniteSets, TLC

VARIABLES
    client,      \* "hook" (useCityWebSocket), "service" (websocketService + useCityData) or "replay" (ReplayPage)
    mounted,     \* the consuming component is mounted (useCityData: mountedRef.current)
    socks,       \* slot -> readyState of the browser socket in that slot, or "FREE"
    wsRef,       \* wsRef.current / this.ws : a slot, or 0 for null
    attempts,    \* reconnectAttemptRef.current / this.reconnectAttempts
    hookTimer,   \* reconnectTimerRef.current : delay of the pending timeout, 0 for null
    status,      \* hook: status state
    lastError,   \* hook: lastError state
    svcTimers,   \* service: number of pending reconnect timeouts (no handle is kept)
    pingRef,     \* service: this.pingInterval is non-null
    pings,       \* service: number of live setInterval heartbeats
    isConnected, \* service: this.isConnected
    uiConnected, \* useCityData: isConnected state
    uiError,     \* useCityData: error state
    nodes,       \* store: cityUpdate.city.nodes / city.nodes (ids)
    incidents,   \* store: incidents state
    routes,      \* store: routes / ambulanceRoutes state
    events,      \* hook: events state
    selected,    \* useCityData: selectedIntersectionId ("none" for null)
    handlerSel,  \* useCityData: selectedIntersectionId as the registered handleCityUpdate closed over it
    incSeen,     \* history: incident_id -> payload of the last incident_update merged since the last snapshot
    routeSeen,   \* history: route_id -> payload of the last ambulance_route_update merged since the last snapshot
    prevDelay,   \* history: delay of the reconnect scheduled before the latest one (0: none since the last open)
    lastDelay,   \* history: delay of the latest reconnect scheduled (0: none since the last open)
    calls,       \* history: number of command calls made
    wire,        \* history: ids of the command calls whose frame was written to a socket
    refused,     \* history: ids of the command calls made while the transport was not open
    last,        \* observation: the operation that produced this state, with its input and result
    latest,      \* ReplayPage: the latestCityUpdate prop, as the arrival number of the snapshot (0 for null)
    buffer,      \* ReplayPage: bufferRef.current
    isRecording, \* ReplayPage: isRecording state
    isPlaying,   \* ReplayPage: isPlaying state
    playIndex,   \* ReplayPage: playIndex state
    recTail      \* history: the last ReplayCapacity + 1 snapshots appended to the buffer

conn  == <<socks, wsRef, attempts, hookTimer, status, lastError,
           svcTimers, pingRef, pings, isConnected, uiConnected, uiError, handlerSel>>
store == <<nodes, incidents, routes, events, selected>>
hist  == <<incSeen, routeSeen, prevDelay, lastDelay, calls, wire, refused>>
replay == <<latest, buffer, isRecording, isPlaying, playIndex, recTail>>
vars  == <<client, mounted, conn, store, hist, last, replay>>

----------------------------------------------------------------------------
(* Bounds of the model *)

MaxSockets == 2      \* sockets that exist at the same time
MaxCalls == 2        \* command calls in one behaviour
MaxTimers == 2       \* service: reconnect timeouts pending at the same time
MaxPings == 2        \* service: heartbeat intervals running at the same time
ReconnectMaxAttempts == 2   \* hook option reconnectMaxAttempts (default 10)
ReplayCapacity == 3  \* capacity of the replay buffer (300 in ReplayPage), scaled down
MaxSnapshots == 5    \* snapshots handed to the replay page in one behaviour

(* Program constants *)

ReconnectIntervalMs == 1000      \* hook option reconnectIntervalMs, default
SvcMaxReconnectAttempts == 5     \* WebSocketService.maxReconnectAttempts
SvcReconnectInterval == 5000     \* WebSocketService.reconnectInterval

Slots == 1..MaxSockets

----------------------------------------------------------------------------
(* Payloads.  An incident or a route is its key and its status; a node is  *)
(* its intersection_id.                                                     *)

NodeIds == {"A", "B"}
IncidentIds == {"X", "Y", "Z"}
RouteIds == {"R"}
IncidentStatus == {"active", "cleared"}
RouteStatus == {"enroute", "arrived"}

Item(i, s) == [id |-> i, status |-> s]
NoItem == Item("none", "none")
Incidents == {Item(i, s) : i \in IncidentIds, s \in IncidentStatus}
Routes == {Item(i, s) : i \in RouteIds, s \in RouteStatus}

\* The arrays a city_update carries; the server keys each by a unique id.
SnapNodes == {<<>>, <<"A", "B">>, <<"B">>}
SnapIncidents == {<<>>, <<Item("X", "active")>>, <<Item("Y", "cleared"), Item("X", "active")>>}
\* ambulance_routes with event_log_tail
SnapTails == {<<<<>>, <<>>>>, <<<<Item("R", "enroute")>>, <<"e1">>>>}

(* An inbound frame: json is what JSON.parse makes of evt.data ("invalid":  *)
(* it throws), type is the value's type field ("none": absent or not a      *)
(* string).                                                                 *)
Frame(j, t, n, i, r, e, it) ==
    [json |-> j, type |-> t, nodes |-> n, incidents |-> i, routes |-> r,
     events |-> e, item |-> it]
Bare(j, t) == Frame(j, t, <<>>, <<>>, <<>>, <<>>, NoItem)

CityUpdates ==
    {Frame("object", "city_update", n, i, t[1], t[2], NoItem) :
        n \in SnapNodes, i \in SnapIncidents, t \in SnapTails}
IncidentUpdates ==
    {Frame("object", "incident_update", <<>>, <<>>, <<>>, <<>>, it) : it \in Incidents}
RouteUpdates ==
    {Frame("object", "ambulance_route_update", <<>>, <<>>, <<>>, <<>>, it) : it \in Routes}
KnownTypes == {"city_update", "incident_update", "ambulance_route_update", "pong", "error"}
OtherTypes == {"unrecognized_kind", "simulation_update", "connection_status"}
Malformed ==
    {Bare(j, "none") : j \in {"invalid", "null", "number", "string", "array", "object"}}
Frames ==
    CityUpdates \cup IncidentUpdates \cup RouteUpdates
        \cup {Bare("object", t) : t \in {"pong", "error"} \cup OtherTypes}
        \cup Malformed

NoFrame == Bare("none", "none")

\* the command functions of the hook, and those of useCityData
Commands == {"dispatchAmbulance", "clearAmbulanceRoute", "createIncident",
             "clearIncident", "ping"}
SvcCommands == {"dispatchAmbulance", "createIncident", "clearIncident"}

HookFrameTypeCrossed(c) ==
    CASE c = "dispatchAmbulance" -> "dispatch_ambulance"
      [] c = "clearAmbulanceRoute" -> "clear_ambulance_route"
      [] c = "createIncident" -> "incident_clear"
      [] c = "clearIncident" -> "incident_create"
      [] c = "ping" -> "ping"
\* the `type` each command function of the hook puts in its message
HookFrameType(c) ==
    CASE c = "dispatchAmbulance" -> "dispatch_ambulance"
      [] c = "clearAmbulanceRoute" -> "clear_ambulance_route"
      [] c = "createIncident" -> "incident_create"
      [] c = "clearIncident" -> "incident_clear"
      [] c = "ping" -> "ping"
\* the `type` each command function of useCityData puts in its message
SvcFrameType(c) ==
    CASE c = "dispatchAmbulance" -> "dispatch_ambulance"
      [] c = "createIncident" -> "incident_create"
      [] c = "clearIncident" -> "incident_clear"

----------------------------------------------------------------------------
(* Sequences as keyed collections *)

RECURSIVE FilterOut(_, _)
\* prev.filter((x) => x.id !== id)
FilterOut(s, id) ==
    IF s = <<>> THEN <<>>
    ELSE IF Head(s).id = id THEN FilterOut(Tail(s), id)
         ELSE <<Head(s)>> \o FilterOut(Tail(s), id)

Entries(s, id) == {k \in 1..Len(s) : s[k].id = id}
UniqueIds(s) == \A a, b \in 1..Len(s) : s[a].id = s[b].id => a = b

UpsertNoFilter(prev, it) == <<it>> \o prev
UpsertAppends(prev, it) == FilterOut(prev, it.id) \o <<it>>
UpsertKeepsExisting(prev, it) == IF Entries(prev, it.id) # {} THEN prev ELSE <<it>> \o prev
\* setIncidents/setRoutes updater: [item, ...prev.filter(by id)]
Upsert(prev, it) == <<it>> \o FilterOut(prev, it.id)


----------------------------------------------------------------------------
(* The browser's sockets *)

FreeSlots(sk) == {i \in Slots : sk[i] = "FREE"}
\* new WebSocket(url): the socket takes the lowest free slot, CONNECTING
NewSlot(sk) == CHOOSE i \in FreeSlots(sk) : \A j \in FreeSlots(sk) : i <= j

\* ws.close() as the clients call it: only an OPEN or CONNECTING socket starts
\* closing.  A CLOSED socket that loses its last reference is gone.
Released(sk, ws) ==
    IF ws = 0 THEN sk
    ELSE [sk EXCEPT ![ws] = IF @ = "CLOSED" THEN "FREE" ELSE @]
Closed(sk, ws) ==
    IF ws = 0 THEN sk
    ELSE [sk EXCEPT ![ws] = IF @ \in {"OPEN", "CONNECTING"} THEN "CLOSING" ELSE @]

\* The socket's readyState once its close event has been queued.
AfterCloseEvent(sk, s, ref) == [sk EXCEPT ![s] = IF s = ref THEN "CLOSED" ELSE "FREE"]

\* close codes of a closing handshake: 1000 (normal), 1005 (close() without a code)
CleanCloseCodes == {1000, 1005}

----------------------------------------------------------------------------
(* Observation of the last operation *)

(* op: "message" (frame, threw: the handler raised an exception; prior: for  *)
(* an incremental update, the payload merged before for the same id since    *)
(* the last snapshot; dirty: for a snapshot, an incremental update had been  *)
(* merged since the snapshot before it), "command" (cmd, open: the transport *)
(* was open at the call; result; wrote: a frame was written), "heartbeat"    *)
(* (open, wrote), or "none".  sel: for a message of the service, the         *)
(* selection before it was processed.                                        *)
Obs(op, f, c, open, res, wrote, threw, prior, dirty, sel) ==
    [op |-> op, frame |-> f, cmd |-> c, open |-> open, result |-> res,
     wrote |-> wrote, threw |-> threw, prior |-> prior, dirty |-> dirty, sel |-> sel,
     log |-> <<>>, index |-> 0]
NoObs == Obs("none", NoFrame, "none", FALSE, "none", FALSE, FALSE, NoItem, FALSE, "none")
MsgObs(f, threw, prior, dirty, sel) ==
    Obs("message", f, "none", FALSE, "none", FALSE, threw, prior, dirty, sel)
\* t: the type of the message handed to sendMessage / send; frame: what was written
CmdObs(c, t, open, res, wrote) ==
    Obs("command", IF wrote THEN Bare("object", t) ELSE NoFrame, c, open, res, wrote,
        FALSE, NoItem, FALSE, "none")

\* a transport-open event; n: the attempt counter when it arrived
OpenObs(n) ==
    Obs("open", NoFrame, "none", FALSE, IF n > 0 THEN "reconnected" ELSE "connected",
        FALSE, FALSE, NoItem, FALSE, "none")

\* The client's transport is present and OPEN.
\* a close or error event of socket s: cur, s is the current transport (wsRef);
\* below, the attempt counter was below the maximum when the event arrived
LostObs(cur, below) ==
    Obs("lost", NoFrame, "none", cur, IF below THEN "below_max" ELSE "at_max",
        FALSE, FALSE, NoItem, FALSE, "none")

\* the service's reconnect timeout ran: it called connect(), or it emitted
\* 'maxReconnectAttemptsReached'
TimeoutObs(retry) ==
    [NoObs EXCEPT !.op = "timeout",
                  !.result = IF retry THEN "connect" ELSE "maxReconnectAttemptsReached"]

TransportOpen == wsRef # 0 /\ socks[wsRef] = "OPEN"

----------------------------------------------------------------------------
(* The store as a value, and React's state setters: a setter called on an   *)
(* unmounted component leaves the state as it is.                           *)

St == [nodes |-> nodes, incidents |-> incidents, routes |-> routes,
       events |-> events, selected |-> selected]
EmptySt == [nodes |-> <<>>, incidents |-> <<>>, routes |-> <<>>, events |-> <<>>,
            selected |-> "none"]

SetStore(st) ==
    /\ nodes' = st.nodes
    /\ incidents' = st.incidents
    /\ routes' = st.routes
    /\ events' = st.events
    /\ selected' = st.selected

SetStoreInit ==
    /\ nodes = <<>> /\ incidents = <<>> /\ routes = <<>> /\ events = <<>>
    /\ selected = "none"
    /\ incSeen = [i \in IncidentIds |-> NoItem]
    /\ routeSeen = [i \in RouteIds |-> NoItem]
    /\ prevDelay = 0 /\ lastDelay = 0
    /\ calls = 0 /\ wire = {} /\ refused = {}

\* history of the incremental updates merged since the last snapshot
NoneSeen(ids) == [i \in ids |-> NoItem]
SeenAfter(seen, ids, f, t) ==
    IF f.json \in {"invalid", "null"} THEN seen
    ELSE IF f.type = "city_update" THEN NoneSeen(ids)
    ELSE IF f.type = t THEN [seen EXCEPT ![f.item.id] = f.item]
    ELSE seen

----------------------------------------------------------------------------
(* useCityWebSocket (src/unnamed/part_011) *)

\* the connection part of the hook's state, as a value
HC == [attempts |-> attempts, timer |-> hookTimer, status |-> status,
       lastError |-> lastError, prevDelay |-> prevDelay, lastDelay |-> lastDelay]

SetHC(c) ==
    /\ attempts' = c.attempts
    /\ hookTimer' = c.timer
    /\ status' = c.status
    /\ lastError' = c.lastError
    /\ prevDelay' = c.prevDelay
    /\ lastDelay' = c.lastDelay

SetStatus(c, v) == IF mounted THEN [c EXCEPT !.status = v] ELSE c
SetLastError(c, v) == IF mounted THEN [c EXCEPT !.lastError = v] ELSE c

clearReconnectTimer(c) == [c EXCEPT !.timer = 0]

HookDelayDecreasing(attempt) == ReconnectIntervalMs * (ReconnectMaxAttempts + 1 - attempt)
\* const delay = reconnectIntervalMs * attempt
HookDelay(attempt) == ReconnectIntervalMs * attempt

ExhaustedOffByOne(c) == c.attempts > ReconnectMaxAttempts
\* reconnectAttemptRef.current >= reconnectMaxAttempts
Exhausted(c) == c.attempts >= ReconnectMaxAttempts

scheduleReconnect(c0) ==
    LET c == clearReconnectTimer(c0) IN
    IF Exhausted(c)
    THEN SetLastError(SetStatus(c, "error"), "reconnect_failed")
    ELSE LET attempt == c.attempts + 1
             delay == HookDelay(attempt)
         IN SetStatus([c EXCEPT !.attempts = attempt, !.timer = delay,
                                !.prevDelay = c.lastDelay, !.lastDelay = delay],
                      "connecting")

HookOnOpenKeepsAttempts(c) == SetStatus(c, "connected")
\* ws.onopen
HookOnOpenConn(c) ==
    SetStatus([c EXCEPT !.attempts = 0, !.prevDelay = 0, !.lastDelay = 0], "connected")
\* ws.onerror
HookOnErrorConn(c) == SetLastError(SetStatus(c, "error"), "ws_error")
\* ws.onclose
HookOnCloseConn(c) == scheduleReconnect(SetStatus(c, "disconnected"))

\* closeSocket(), then the body of connect(); ok: new WebSocket(url) returned
HookConnectFrom(ok) ==
    LET sk == Released(Closed(socks, wsRef), wsRef)
        c0 == SetLastError(SetStatus(clearReconnectTimer(HC), "connecting"), "null")
    IN IF ok
       THEN /\ FreeSlots(sk) # {}
            /\ socks' = [sk EXCEPT ![NewSlot(sk)] = "CONNECTING"]
            /\ wsRef' = NewSlot(sk)
            /\ SetHC(c0)
       ELSE /\ socks' = sk
            /\ wsRef' = 0
            /\ SetHC(scheduleReconnect(SetLastError(SetStatus(c0, "error"), "ctor_error")))

HookFrame ==
    /\ client = "hook"
    /\ UNCHANGED <<client, svcTimers, pingRef, pings, isConnected, uiConnected, uiError,
                   handlerSel, replay>>

\* the effect's cleanup and its next run, when url changes
HookEffectRerun ==
    /\ HookFrame
    /\ mounted
    /\ \E ok \in BOOLEAN : HookConnectFrom(ok)
    /\ last' = NoObs
    /\ UNCHANGED <<mounted, store, incSeen, routeSeen, calls, wire, refused>>

\* the effect's cleanup at unmount: closeSocket()
HookUnmount ==
    /\ HookFrame
    /\ mounted
    /\ mounted' = FALSE
    /\ socks' = Released(Closed(socks, wsRef), wsRef)
    /\ wsRef' = 0
    /\ SetHC(clearReconnectTimer(HC))
    /\ last' = NoObs
    /\ UNCHANGED <<store, incSeen, routeSeen, calls, wire, refused>>

\* the reconnect timeout fires: connect()
HookTimerFires(ok) ==
    /\ HookFrame
    /\ hookTimer # 0
    /\ HookConnectFrom(ok)
    /\ last' = NoObs
    /\ UNCHANGED <<mounted, store, incSeen, routeSeen, calls, wire, refused>>

HookOnOpen(s) ==
    /\ HookFrame
    /\ socks[s] = "CONNECTING"
    /\ socks' = [socks EXCEPT ![s] = "OPEN"]
    /\ SetHC(HookOnOpenConn(HC))
    /\ last' = OpenObs(attempts)
    /\ UNCHANGED <<mounted, wsRef, store, incSeen, routeSeen, calls, wire, refused>>

\* the socket closes after a closing handshake: the close event alone
HookOnClose(s) ==
    /\ HookFrame
    /\ socks[s] \in {"OPEN", "CLOSING"}
    /\ socks' = AfterCloseEvent(socks, s, wsRef)
    /\ SetHC(HookOnCloseConn(HC))
    /\ last' = LostObs(s = wsRef, attempts < ReconnectMaxAttempts)
    /\ UNCHANGED <<mounted, wsRef, store, incSeen, routeSeen, calls, wire, refused>>

\* the connection fails: the error event, then the close event
HookOnFail(s) ==
    /\ HookFrame
    /\ socks[s] \in {"CONNECTING", "OPEN", "CLOSING"}
    /\ socks' = AfterCloseEvent(socks, s, wsRef)
    /\ SetHC(HookOnCloseConn(HookOnErrorConn(HC)))
    /\ last' = LostObs(s = wsRef, attempts < ReconnectMaxAttempts)
    /\ UNCHANGED <<mounted, wsRef, store, incSeen, routeSeen, calls, wire, refused>>


\* JSON.parse(evt.data) failed: catch { return }
HookParseFails(f) == f.json = "invalid"

\* msg.type is read off the parsed value without a check: null has no properties
HookThrows(f) == f.json = "null"

HookMergeKeepsIncidents(st, f) ==
    IF f.type = "city_update"
    THEN [st EXCEPT !.nodes = f.nodes, !.routes = f.routes, !.events = f.events]
    ELSE IF f.type = "ambulance_route_update"
    THEN [st EXCEPT !.routes = Upsert(st.routes, f.item)]
    ELSE IF f.type = "incident_update"
    THEN [st EXCEPT !.incidents = Upsert(st.incidents, f.item)]
    ELSE st
HookMergeFallsThrough(st, f) ==
    IF f.type = "city_update"
    THEN [st EXCEPT !.nodes = f.nodes, !.incidents = f.incidents,
                    !.routes = f.routes, !.events = f.events]
    ELSE IF f.type = "ambulance_route_update"
    THEN [st EXCEPT !.routes = Upsert(st.routes, f.item)]
    ELSE [st EXCEPT !.incidents = Upsert(st.incidents, f.item)]
\* the body of ws.onmessage after the parse, on the store
HookMergeSkipsRoutes(st, f) ==
    IF f.type = "city_update"
    THEN [st EXCEPT !.nodes = f.nodes, !.incidents = f.incidents,
                    !.routes = f.routes, !.events = f.events]
    ELSE IF f.type = "incident_update"
    THEN [st EXCEPT !.incidents = Upsert(st.incidents, f.item)]
    ELSE st
HookMergeAppendsEvents(st, f) ==
    IF f.type = "city_update"
    THEN [st EXCEPT !.nodes = f.nodes, !.incidents = f.incidents,
                    !.routes = f.routes, !.events = st.events \o f.events]
    ELSE IF f.type = "ambulance_route_update"
    THEN [st EXCEPT !.routes = Upsert(st.routes, f.item)]
    ELSE IF f.type = "incident_update"
    THEN [st EXCEPT !.incidents = Upsert(st.incidents, f.item)]
    ELSE st

HookMerge(st, f) ==
    IF f.type = "city_update"
    THEN [st EXCEPT !.nodes = f.nodes, !.incidents = f.incidents,
                    !.routes = f.routes, !.events = f.events]
    ELSE IF f.type = "ambulance_route_update"
    THEN [st EXCEPT !.routes = Upsert(st.routes, f.item)]
    ELSE IF f.type = "incident_update"
    THEN [st EXCEPT !.incidents = Upsert(st.incidents, f.item)]
    ELSE st

\* ws.onmessage
HookOnMessage(s, f) ==
    /\ HookFrame
    /\ socks[s] = "OPEN"
    /\ LET handled == ~HookParseFails(f) /\ ~HookThrows(f) /\ mounted IN
       /\ SetStore(IF handled THEN HookMerge(St, f) ELSE St)
       /\ incSeen' = IF handled THEN SeenAfter(incSeen, IncidentIds, f, "incident_update")
                     ELSE incSeen
       /\ routeSeen' = IF handled
                       THEN SeenAfter(routeSeen, RouteIds, f, "ambulance_route_update")
                       ELSE routeSeen
    /\ last' = [MsgObs(f, ~HookParseFails(f) /\ HookThrows(f),
                      IF f.type = "incident_update" THEN incSeen[f.item.id]
                      ELSE IF f.type = "ambulance_route_update" THEN routeSeen[f.item.id]
                      ELSE NoItem,
                      f.type = "city_update"
                          /\ (incSeen # NoneSeen(IncidentIds) \/ routeSeen # NoneSeen(RouteIds)),
                      "none") EXCEPT !.log = events]
    /\ UNCHANGED <<mounted, conn, prevDelay, lastDelay, calls, wire, refused>>

SendGuardNoState(ws) == ws # 0
\* sendMessage / send: the frame is written only to a present, OPEN socket
SendGuard(ws) == ws # 0 /\ socks[ws] = "OPEN"

WrittenAlways(w, n, ws) == w \cup {n}
\* ws.send(JSON.stringify(msg)) behind the guard: the frames written so far
Written(w, n, ws) == IF SendGuard(ws) THEN w \cup {n} ELSE w

\* sendMessage(msg), as every command of the hook calls it
HookCommand(c) ==
    /\ HookFrame
    /\ mounted
    /\ calls < MaxCalls
    /\ calls' = calls + 1
    /\ wire' = Written(wire, calls + 1, wsRef)
    /\ refused' = IF TransportOpen THEN refused ELSE refused \cup {calls + 1}
    /\ last' = CmdObs(c, HookFrameType(c), TransportOpen,
                      IF SendGuard(wsRef) THEN "true" ELSE "false",
                      SendGuard(wsRef))
    /\ UNCHANGED <<mounted, conn, store, incSeen, routeSeen, prevDelay, lastDelay>>


----------------------------------------------------------------------------
(* WebSocketService (services/websocketService.ts) and its consumer        *)
(* useCityData (hooks/useCityData.ts).  The consumer's listeners are       *)
(* registered exactly while mountedRef.current is true.                    *)

\* the service's fields and the consumer's connection state, as a value
SV == [attempts |-> attempts, timers |-> svcTimers, pingRef |-> pingRef, pings |-> pings,
       isConnected |-> isConnected, uiConnected |-> uiConnected, uiError |-> uiError,
       prevDelay |-> prevDelay, lastDelay |-> lastDelay]

SetSV(v) ==
    /\ attempts' = v.attempts
    /\ svcTimers' = v.timers
    /\ pingRef' = v.pingRef
    /\ pings' = v.pings
    /\ isConnected' = v.isConnected
    /\ uiConnected' = v.uiConnected
    /\ uiError' = v.uiError
    /\ prevDelay' = v.prevDelay
    /\ lastDelay' = v.lastDelay

InBounds(v) == v.timers <= MaxTimers /\ v.pings <= MaxPings

\* notifyConnectionStatus(connected) -> handleConnectionStatus, when registered
notifyConnectionStatus(v, connected, listening) ==
    IF listening
    THEN [v EXCEPT !.uiConnected = connected,
                   !.uiError = IF connected THEN "null" ELSE "lost"]
    ELSE v

\* attemptReconnect(): the delay is the fixed reconnectInterval
attemptReconnect(v) ==
    [v EXCEPT !.attempts = v.attempts + 1, !.timers = v.timers + 1,
              !.prevDelay = v.lastDelay, !.lastDelay = SvcReconnectInterval]

handleConnectionError(v, listening) ==
    LET w == notifyConnectionStatus([v EXCEPT !.isConnected = FALSE], FALSE, listening) IN
    IF w.attempts < SvcMaxReconnectAttempts THEN attemptReconnect(w) ELSE w

\* if (this.pingInterval) { clearInterval(this.pingInterval); this.pingInterval = null }
clearPing(v) == IF v.pingRef THEN [v EXCEPT !.pingRef = FALSE, !.pings = v.pings - 1] ELSE v

\* ws.onopen
SvcOnOpenConn(v, listening) ==
    LET w == notifyConnectionStatus(
                 [v EXCEPT !.isConnected = TRUE, !.attempts = 0,
                           !.prevDelay = 0, !.lastDelay = 0], TRUE, listening)
    IN [w EXCEPT !.pingRef = TRUE, !.pings = w.pings + 1]

\* event.code !== 1000
Unintentional(code) == code # 1000

\* ws.onclose
SvcOnCloseConn(v, code, listening) ==
    LET w == clearPing(notifyConnectionStatus([v EXCEPT !.isConnected = FALSE],
                                              FALSE, listening))
    IN IF Unintentional(code) /\ w.attempts < SvcMaxReconnectAttempts
       THEN attemptReconnect(w) ELSE w

\* ws.onerror
SvcOnErrorConn(v, listening) == handleConnectionError(v, listening)

\* disconnect(), on the service's fields
SvcDisconnectConn(v, listening) ==
    notifyConnectionStatus([clearPing(v) EXCEPT !.isConnected = FALSE], FALSE, listening)

\* connect() from the fields v and the sockets sk; ok: new WebSocket(url) returned
SvcConnectFrom(v, sk, ref, listening, ok) ==
    IF ref # 0 /\ sk[ref] = "OPEN"
    THEN /\ socks' = sk /\ wsRef' = ref /\ SetSV(v)
    ELSE IF ok
    THEN /\ FreeSlots(Released(sk, ref)) # {}
         /\ socks' = [Released(sk, ref) EXCEPT ![NewSlot(Released(sk, ref))] = "CONNECTING"]
         /\ wsRef' = NewSlot(Released(sk, ref))
         /\ SetSV(v)
    ELSE /\ socks' = sk /\ wsRef' = ref
         /\ InBounds(handleConnectionError(v, listening))
         /\ SetSV(handleConnectionError(v, listening))

SvcFrame ==
    /\ client = "service"
    /\ UNCHANGED <<client, hookTimer, status, lastError, events, replay>>

\* a reconnect timeout fires
SvcTimerFires(ok) ==
    /\ SvcFrame
    /\ svcTimers > 0
    /\ LET v == [SV EXCEPT !.timers = svcTimers - 1] IN
       IF v.attempts <= SvcMaxReconnectAttempts
       THEN SvcConnectFrom(v, socks, wsRef, mounted, ok)
       ELSE /\ SetSV(v) /\ UNCHANGED <<socks, wsRef>>   \* emit('maxReconnectAttemptsReached')
    /\ last' = TimeoutObs(attempts <= SvcMaxReconnectAttempts)
    /\ UNCHANGED <<mounted, handlerSel, nodes, incidents, routes, selected,
                   incSeen, routeSeen, calls, wire, refused>>

SvcOnOpen(s) ==
    /\ SvcFrame
    /\ socks[s] = "CONNECTING"
    /\ InBounds(SvcOnOpenConn(SV, mounted))
    /\ socks' = [socks EXCEPT ![s] = "OPEN"]
    /\ SetSV(SvcOnOpenConn(SV, mounted))
    /\ last' = OpenObs(attempts)
    /\ UNCHANGED <<mounted, wsRef, handlerSel, nodes, incidents, routes, selected,
                   incSeen, routeSeen, calls, wire, refused>>

\* the socket closes after a closing handshake: the close event alone
SvcOnClose(s, code) ==
    /\ SvcFrame
    /\ socks[s] \in {"OPEN", "CLOSING"}
    /\ InBounds(SvcOnCloseConn(SV, code, mounted))
    /\ socks' = AfterCloseEvent(socks, s, wsRef)
    /\ SetSV(SvcOnCloseConn(SV, code, mounted))
    /\ last' = LostObs(s = wsRef, attempts < SvcMaxReconnectAttempts)
    /\ UNCHANGED <<mounted, wsRef, handlerSel, nodes, incidents, routes, selected,
                   incSeen, routeSeen, calls, wire, refused>>

\* the connection fails: the error event, then the close event (code 1006)
SvcOnFail(s) ==
    /\ SvcFrame
    /\ socks[s] \in {"CONNECTING", "OPEN", "CLOSING"}
    /\ LET v == SvcOnCloseConn(SvcOnErrorConn(SV, mounted), 1006, mounted) IN
       /\ InBounds(v)
       /\ SetSV(v)
    /\ socks' = AfterCloseEvent(socks, s, wsRef)
    /\ last' = LostObs(s = wsRef, attempts < SvcMaxReconnectAttempts)
    /\ UNCHANGED <<mounted, wsRef, handlerSel, nodes, incidents, routes, selected,
                   incSeen, routeSeen, calls, wire, refused>>

\* the heartbeat interval ticks: 'ping' is written if this.ws is OPEN
SvcPingTick ==
    /\ SvcFrame
    /\ pings > 0
    /\ last' = Obs("heartbeat", NoFrame, "none", TransportOpen, "none", SendGuard(wsRef),
                   FALSE, NoItem, FALSE, "none")
    /\ UNCHANGED <<mounted, conn, nodes, incidents, routes, selected, hist>>


\* ws.onmessage's catch, and handleMessage's first test
SvcDrops(f) == f.json \in {"invalid", "null"} \/ f.type = "none"

CityDataMergeSelectsLast(st, f, hsel) ==
    [st EXCEPT !.nodes = f.nodes, !.incidents = f.incidents, !.routes = f.routes,
               !.selected = IF hsel = "none" /\ Len(f.nodes) > 0
                            THEN f.nodes[Len(f.nodes)] ELSE st.selected]
\* handleCityUpdate(msg), on the store; hsel: the selection the handler closed over
CityDataMerge(st, f, hsel) ==
    [st EXCEPT !.nodes = f.nodes, !.incidents = f.incidents, !.routes = f.routes,
               !.selected = IF hsel = "none" /\ Len(f.nodes) > 0
                            THEN f.nodes[1] ELSE st.selected]

\* handleMessage(message): what its emit reaches in useCityData, on the store
SvcMerge(st, f, hsel) ==
    IF f.type = "city_update" THEN CityDataMerge(st, f, hsel) ELSE st

\* ws.onmessage -> handleMessage -> emit -> handleCityUpdate / handleError
SvcOnMessage(s, f) ==
    /\ SvcFrame
    /\ socks[s] = "OPEN"
    /\ LET handled == ~SvcDrops(f) /\ mounted IN
       /\ SetStore(IF handled THEN SvcMerge(St, f, handlerSel) ELSE St)
       /\ uiError' = IF handled /\ f.type = "city_update" THEN "null"
                     ELSE IF handled /\ f.type = "error" THEN "server"
                     ELSE uiError
    /\ last' = MsgObs(f, FALSE, NoItem, FALSE, selected)
    /\ UNCHANGED <<mounted, socks, wsRef, attempts, svcTimers, pingRef, pings, isConnected,
                   uiConnected, handlerSel, hist>>

\* websocketService.send(message), as every command of useCityData calls it
SvcCommand(c) ==
    /\ SvcFrame
    /\ mounted
    /\ calls < MaxCalls
    /\ calls' = calls + 1
    /\ wire' = Written(wire, calls + 1, wsRef)
    /\ refused' = IF TransportOpen THEN refused ELSE refused \cup {calls + 1}
    /\ last' = CmdObs(c, SvcFrameType(c), TransportOpen, "undefined", SendGuard(wsRef))
    /\ UNCHANGED <<mounted, conn, nodes, incidents, routes, selected,
                   incSeen, routeSeen, prevDelay, lastDelay>>

\* setSelectedIntersectionId(id), from a click on the page.  React runs the
\* effects still pending from the render before: if handleCityUpdate changed
\* with the selection, the mount effect runs again (CityDataEffectRerun)
\* before the click's own render.  ok: new WebSocket(url) returned
CityDataSelect(id, ok) ==
    /\ SvcFrame
    /\ mounted
    /\ \E k \in 1..Len(nodes) : nodes[k] = id    \* the page offers the nodes of the store
    /\ IF handlerSel # selected
       THEN /\ handlerSel' = selected
            /\ SvcConnectFrom(SvcDisconnectConn(SV, FALSE),
                              Released(Closed(socks, wsRef), wsRef), 0, TRUE, ok)
       ELSE /\ ok
            /\ UNCHANGED <<socks, wsRef, attempts, svcTimers, pingRef, pings, isConnected,
                           uiConnected, uiError, prevDelay, lastDelay, handlerSel>>
    /\ selected' = id
    /\ last' = NoObs
    /\ UNCHANGED <<mounted, nodes, incidents, routes, incSeen, routeSeen, calls, wire, refused>>

\* the effect's cleanup at unmount: listeners off, then disconnect()
SvcUnmount ==
    /\ SvcFrame
    /\ mounted
    /\ mounted' = FALSE
    /\ socks' = Released(Closed(socks, wsRef), wsRef)
    /\ wsRef' = 0
    /\ SetSV(SvcDisconnectConn(SV, FALSE))
    /\ last' = NoObs
    /\ UNCHANGED <<handlerSel, nodes, incidents, routes, selected,
                   incSeen, routeSeen, calls, wire, refused>>

\* handleCityUpdate changed with the selection, so the effect runs again:
\* its cleanup (listeners off, disconnect()), then listeners on and connect();
\* ok: new WebSocket(url) returned
CityDataEffectRerun(ok) ==
    /\ SvcFrame
    /\ mounted
    /\ handlerSel # selected
    /\ handlerSel' = selected
    /\ SvcConnectFrom(SvcDisconnectConn(SV, FALSE),
                      Released(Closed(socks, wsRef), wsRef), 0, TRUE, ok)
    /\ last' = NoObs
    /\ UNCHANGED <<mounted, nodes, incidents, routes, selected,
                   incSeen, routeSeen, calls, wire, refused>>

\* a new consumer mounts on the singleton service: fresh state, listeners on,
\* connect(); ok: new WebSocket(url) returned
SvcMount(ok) ==
    /\ SvcFrame
    /\ ~mounted
    /\ mounted' = TRUE
    /\ handlerSel' = "none"
    /\ SetStore([EmptySt EXCEPT !.events = events])
    /\ incSeen' = NoneSeen(IncidentIds)
    /\ routeSeen' = NoneSeen(RouteIds)
    /\ SvcConnectFrom([SV EXCEPT !.uiConnected = FALSE, !.uiError = "null"],
                      socks, wsRef, TRUE, ok)
    /\ last' = NoObs
    /\ UNCHANGED <<calls, wire, refused>>

----------------------------------------------------------------------------
(* ReplayPage (TESTING_GUIDE.md, from line 255)                             *)

ReplayInit ==
    /\ latest = 0 /\ buffer = <<>>
    /\ isRecording = TRUE /\ isPlaying = FALSE /\ playIndex = 0
    /\ recTail = <<>>

SliceFirst(s, n) == IF Len(s) <= n THEN s ELSE SubSeq(s, 1, n)
\* s.slice(-n)
SliceLast(s, n) == IF Len(s) <= n THEN s ELSE SubSeq(s, Len(s) - n + 1, Len(s))

\* the record effect's guard: if (!latestCityUpdate || !isRecording) return
Records(lat, rec) == lat # 0 /\ rec

\* the record effect, run with the prop lat and the states rec, play, idx
RecordEffect(lat, rec, play, idx) ==
    IF Records(lat, rec)
    THEN LET b == SliceLast(Append(buffer, lat), ReplayCapacity) IN
         /\ buffer' = b
         /\ recTail' = SliceLast(Append(recTail, lat), ReplayCapacity + 1)
         /\ playIndex' = IF play THEN idx ELSE Len(b) - 1
    ELSE /\ UNCHANGED <<buffer, recTail>>
         /\ playIndex' = idx

\* what the page did last: the operation, and for the slider the value sought
ReplayObs(op, v) == [NoObs EXCEPT !.op = op, !.index = v]

ReplayFrame ==
    /\ client = "replay"
    /\ UNCHANGED <<client, mounted, conn, store, hist>>

\* the page is handed a new snapshot: the record effect runs
ReplaySnapshot ==
    /\ ReplayFrame
    /\ latest < MaxSnapshots
    /\ latest' = latest + 1
    /\ RecordEffect(latest + 1, isRecording, isPlaying, playIndex)
    /\ last' = ReplayObs("snapshot", 0)
    /\ UNCHANGED <<isRecording, isPlaying>>

\* the Recording / Paused button: isRecording is a dependency of the record effect
ReplayToggleRecording ==
    /\ ReplayFrame
    /\ isRecording' = ~isRecording
    /\ RecordEffect(latest, ~isRecording, isPlaying, playIndex)
    /\ last' = ReplayObs("record", 0)
    /\ UNCHANGED <<latest, isPlaying>>

\* the Play / Stop button, disabled while the buffer holds fewer than 2 snapshots
ReplayTogglePlaying ==
    /\ ReplayFrame
    /\ Len(buffer) >= 2
    /\ isPlaying' = ~isPlaying
    /\ RecordEffect(latest, isRecording, ~isPlaying, playIndex)
    /\ last' = ReplayObs(IF isPlaying THEN "stop" ELSE "play", 0)
    /\ UNCHANGED <<latest, isRecording>>

\* Math.max(0, bufferRef.current.length - 1)
MaxIndex == IF Len(buffer) = 0 THEN 0 ELSE Len(buffer) - 1

ReplayTickLoops ==
    /\ ReplayFrame
    /\ isPlaying
    /\ isPlaying' = TRUE
    /\ playIndex' = IF playIndex + 1 >= MaxIndex THEN 0 ELSE playIndex + 1
    /\ last' = ReplayObs("tick", 0)
    /\ UNCHANGED <<latest, isRecording, buffer, recTail>>

\* the playback interval ticks; when it stops the playback, isPlaying changes
\* and the record effect runs again
ReplayTick ==
    /\ ReplayFrame
    /\ isPlaying
    /\ IF playIndex + 1 >= MaxIndex
       THEN /\ isPlaying' = FALSE
            /\ RecordEffect(latest, isRecording, FALSE, MaxIndex)
       ELSE /\ isPlaying' = TRUE
            /\ playIndex' = playIndex + 1
            /\ UNCHANGED <<buffer, recTail>>
    /\ last' = ReplayObs("tick", 0)
    /\ UNCHANGED <<latest, isRecording>>

\* the slider: setIsPlaying(false); setPlayIndex(v)
ReplaySeek(v) ==
    /\ ReplayFrame
    /\ v \in 0..MaxIndex
    /\ isPlaying' = FALSE
    /\ IF isPlaying
       THEN RecordEffect(latest, isRecording, FALSE, v)
       ELSE playIndex' = v /\ UNCHANGED <<buffer, recTail>>
    /\ last' = ReplayObs("seek", v)
    /\ UNCHANGED <<latest, isRecording>>

----------------------------------------------------------------------------
(* Specifications *)

\* the frames of the connection specifications: a snapshot and a heartbeat reply
ConnFrames ==
    {Frame("object", "city_update", <<"A", "B">>, <<>>, <<>>, <<>>, NoItem),
     Bare("object", "pong")}

\* the frames of the command specification: those, and an incremental update
CmdFrames ==
    ConnFrames \cup {Frame("object", "incident_update", <<>>, <<>>, <<>>, <<>>,
                           Item("X", "active"))}

\* the state once the page has rendered and the mount effect has called connect()
Init ==
    /\ client \in {"hook", "service"}
    /\ mounted = TRUE
    /\ socks = [i \in Slots |-> IF i = 1 THEN "CONNECTING" ELSE "FREE"]
    /\ wsRef = 1
    /\ attempts = 0
    /\ hookTimer = 0 /\ status = "connecting" /\ lastError = "null"
    /\ svcTimers = 0 /\ pingRef = FALSE /\ pings = 0 /\ isConnected = FALSE
    /\ uiConnected = FALSE /\ uiError = "null" /\ handlerSel = "none"
    /\ SetStoreInit
    /\ last = NoObs
    /\ ReplayInit

HookLifecycle ==
    \/ HookEffectRerun
    \/ HookUnmount
    \/ \E ok \in BOOLEAN : HookTimerFires(ok)
    \/ \E s \in Slots : HookOnOpen(s)
    \/ \E s \in Slots : HookOnClose(s)
    \/ \E s \in Slots : HookOnFail(s)

SvcLifecycle ==
    \/ \E ok \in BOOLEAN : SvcMount(ok)
    \/ SvcUnmount
    \/ \E ok \in BOOLEAN : CityDataEffectRerun(ok)
    \/ \E id \in NodeIds, ok \in BOOLEAN : CityDataSelect(id, ok)
    \/ \E ok \in BOOLEAN : SvcTimerFires(ok)
    \/ SvcPingTick
    \/ \E s \in Slots : SvcOnOpen(s)
    \/ \E s \in Slots, code \in CleanCloseCodes : SvcOnClose(s, code)
    \/ \E s \in Slots : SvcOnFail(s)

\* The connection: every lifecycle event of both clients.
Next ==
    \/ HookLifecycle
    \/ SvcLifecycle
    \/ \E s \in Slots, f \in ConnFrames : HookOnMessage(s, f)
    \/ \E s \in Slots, f \in ConnFrames : SvcOnMessage(s, f)

Spec == Init /\ [][Next]_vars

\* The store: every frame, over a transport that opens, delivers and is closed
\* by the client (mount, unmount, effect re-run), and does not fail.
NextStore ==
    \/ HookEffectRerun
    \/ HookUnmount
    \/ \E s \in Slots : HookOnOpen(s)
    \/ \E s \in Slots, f \in Frames : HookOnMessage(s, f)
    \/ SvcMount(TRUE)
    \/ SvcUnmount
    \/ CityDataEffectRerun(TRUE)
    \/ \E id \in NodeIds : CityDataSelect(id, TRUE)
    \/ \E s \in Slots : SvcOnOpen(s)
    \/ \E s \in Slots : SvcOnClose(s, 1000)
    \/ \E s \in Slots, f \in Frames : SvcOnMessage(s, f)

SpecStore == Init /\ [][NextStore]_vars

\* The command channel: commands, over the hook's transport as it is lost and
\* reconnected, and over the service's as its consumer opens and closes it.
NextCmd ==
    \/ HookLifecycle
    \/ SvcMount(TRUE)
    \/ SvcUnmount
    \/ CityDataEffectRerun(TRUE)
    \/ \E s \in Slots : SvcOnOpen(s)
    \/ \E s \in Slots : SvcOnClose(s, 1000)
    \/ \E s \in Slots, f \in CmdFrames : HookOnMessage(s, f)
    \/ \E s \in Slots, f \in CmdFrames : SvcOnMessage(s, f)
    \/ \E c \in Commands : HookCommand(c)
    \/ \E c \in SvcCommands : SvcCommand(c)

SpecCmd == Init /\ [][NextCmd]_vars

\* Recovery: the lifecycle of both clients, with timeouts that fire (setTimeout
\* runs its callback unless clearTimeout was called) and whose connect() gets its
\* socket from the constructor.
NextRecover ==
    \/ HookEffectRerun
    \/ HookUnmount
    \/ HookTimerFires(TRUE)
    \/ \E s \in Slots : HookOnOpen(s)
    \/ \E s \in Slots : HookOnClose(s)
    \/ \E s \in Slots : HookOnFail(s)
    \/ SvcMount(TRUE)
    \/ SvcUnmount
    \/ SvcTimerFires(TRUE)
    \/ SvcPingTick
    \/ \E s \in Slots : SvcOnOpen(s)
    \/ \E s \in Slots, code \in CleanCloseCodes : SvcOnClose(s, code)
    \/ \E s \in Slots : SvcOnFail(s)

SpecRecover ==
    /\ Init
    /\ [][NextRecover]_vars
    /\ WF_vars(HookTimerFires(TRUE))
    /\ WF_vars(SvcTimerFires(TRUE))

\* The replay page, once it has rendered without a snapshot.
InitReplay ==
    /\ client = "replay"
    /\ mounted = TRUE
    /\ socks = [i \in Slots |-> "FREE"] /\ wsRef = 0
    /\ attempts = 0
    /\ hookTimer = 0 /\ status = "connecting" /\ lastError = "null"
    /\ svcTimers = 0 /\ pingRef = FALSE /\ pings = 0 /\ isConnected = FALSE
    /\ uiConnected = FALSE /\ uiError = "null" /\ handlerSel = "none"
    /\ SetStoreInit
    /\ last = NoObs
    /\ ReplayInit

NextReplay ==
    \/ ReplaySnapshot
    \/ ReplayToggleRecording
    \/ ReplayTogglePlaying
    \/ ReplayTick
    \/ \E v \in 0..ReplayCapacity : ReplaySeek(v)

SpecReplay == InitReplay /\ [][NextReplay]_vars

\* The replay page with a playback interval that ticks: setInterval runs its
\* callback every 500 ms until the timer effect's cleanup clears it.
SpecPlayback == InitReplay /\ [][NextReplay]_vars /\ WF_vars(ReplayTick)

----------------------------------------------------------------------------
(* The store *)

\* C1: once a city_update has been processed by a mounted client, the node
\* list, the incidents and the routes are exactly those the message carries,
\* whatever incremental updates were merged before it.
SnapshotAuthority ==
    (last.op = "message" /\ last.frame.type = "city_update" /\ mounted)
        => /\ nodes = last.frame.nodes
           /\ incidents = last.frame.incidents
           /\ routes = last.frame.routes

\* a snapshot without incidents has just replaced incidents merged from updates
SnapshotAfterUpdates ==
    /\ last.op = "message" /\ last.frame.type = "city_update" /\ last.dirty
    /\ last.frame.incidents = <<>> /\ incidents = <<>>
    /\ last.frame.nodes = <<"A", "B">>
    /\ mounted

\* C2: with no snapshot in between, every id an incident_update (an
\* ambulance_route_update) was merged for has exactly one entry in the
\* collection, and the entry is the payload of the last update for that id.
UpsertByKey ==
    /\ \A id \in IncidentIds :
          incSeen[id] # NoItem =>
              /\ Cardinality(Entries(incidents, id)) = 1
              /\ \A k \in Entries(incidents, id) : incidents[k] = incSeen[id]
    /\ \A id \in RouteIds :
          routeSeen[id] # NoItem =>
              /\ Cardinality(Entries(routes, id)) = 1
              /\ \A k \in Entries(routes, id) : routes[k] = routeSeen[id]

\* an incident merged from an update has just been updated with another status,
\* next to an incident of another id
UpdatedTwice ==
    /\ last.op = "message" /\ last.frame.type = "incident_update"
    /\ last.prior # NoItem /\ last.prior.status # last.frame.item.status
    /\ Len(incidents) = 2
    /\ mounted

UnknownTypeIgnored ==
    [][(last'.op = "message" /\ last'.frame.json = "object"
            /\ last'.frame.type \in OtherTypes)
        => UNCHANGED <<nodes, incidents, routes, events, selected,
                       status, lastError, isConnected, uiConnected, uiError>>]_vars

\* a frame of an unrecognised kind has been processed over a filled store
UnknownTypeProcessed ==
    /\ last.op = "message" /\ last.frame.type = "unrecognized_kind"
    /\ nodes # <<>> /\ incidents # <<>> /\ routes # <<>>
    /\ mounted

\* C5: a frame that does not parse, or parses to a value without a string
\* type, is dropped: the handler raises no exception and changes nothing.
MalformedDropped ==
    [][(last'.op = "message" /\ last'.frame \in Malformed)
        => /\ ~last'.threw
           /\ UNCHANGED <<nodes, incidents, routes, events, selected,
                          status, lastError, isConnected, uiConnected, uiError>>]_vars

----------------------------------------------------------------------------
(* The connection *)

\* C6: once the client has been disconnected (its consumer unmounted), no
\* connection attempt is started, whatever close event or timer comes later.
DisconnectIsTerminal ==
    [][(~mounted /\ ~mounted')
        => \A s \in Slots : socks'[s] = "CONNECTING" => socks[s] = "CONNECTING"]_vars

\* the hook has given up: no timer is pending and no socket is or may become live
HookGaveUp ==
    /\ client = "hook"
    /\ attempts = ReconnectMaxAttempts
    /\ hookTimer = 0
    /\ \A s \in Slots : socks[s] \notin {"CONNECTING", "OPEN"}

\* the hook's transport goes to CLOSED in this step
HookTransportCloses ==
    /\ client = "hook"
    /\ wsRef # 0 /\ wsRef' = wsRef
    /\ socks[wsRef] # "CLOSED" /\ socks'[wsRef] = "CLOSED"

\* C7: when the hook's transport closes while the attempt counter equals
\* reconnectMaxAttempts, the status becomes "error" with a non-null lastError,
\* no reconnect timer is pending, and no connection attempt is made until
\* connect() is invoked by the effect.
BoundedReconnection ==
    /\ [][(HookTransportCloses /\ attempts = ReconnectMaxAttempts)
            => /\ HookGaveUp'
               /\ mounted => (status' = "error" /\ lastError' # "null")]_vars
    /\ [][HookGaveUp => (HookGaveUp' \/ HookEffectRerun)]_vars

\* the transport has closed with the attempts used up
ReconnectionExhausted ==
    /\ HookGaveUp
    /\ mounted
    /\ wsRef # 0 /\ socks[wsRef] = "CLOSED"
    /\ status = "error" /\ lastError = "reconnect_failed"

\* the largest delay a client may schedule
MaxDelay ==
    IF client = "hook" THEN ReconnectIntervalMs * ReconnectMaxAttempts
    ELSE SvcReconnectInterval * SvcMaxReconnectAttempts

\* C8: between two opens, the delay of a reconnect is at least the delay of
\* the reconnect before it, and never more than interval x max attempts; the
\* hook's delay for attempt k is reconnectIntervalMs x k.
BackoffMonotone ==
    /\ prevDelay # 0 => prevDelay <= lastDelay
    /\ lastDelay <= MaxDelay
    /\ (client = "hook" /\ lastDelay # 0)
          => /\ attempts \in 1..ReconnectMaxAttempts
             /\ lastDelay = ReconnectIntervalMs * attempts
    /\ (client = "hook" /\ hookTimer # 0 /\ lastDelay # 0) => hookTimer = lastDelay

\* the hook has scheduled its second reconnect in a row, later than the first
SecondReconnectScheduled ==
    /\ client = "hook"
    /\ attempts = 2 /\ hookTimer # 0
    /\ prevDelay # 0 /\ prevDelay < lastDelay

----------------------------------------------------------------------------
(* Commands *)

NoCommandQueuing ==
    /\ wire \cap refused = {}
    /\ wire \cup refused = 1..calls

\* after a refused command the transport is open and a later command is written
LaterCommandWritten ==
    /\ TransportOpen
    /\ \E r \in refused, w \in wire : r < w


\* the frame type each command is to write
CommandType ==
    [c \in {"dispatchAmbulance", "createIncident", "clearIncident", "clearAmbulanceRoute"} |->
        CASE c = "dispatchAmbulance" -> "dispatch_ambulance"
          [] c = "createIncident" -> "incident_create"
          [] c = "clearIncident" -> "incident_clear"
          [] c = "clearAmbulanceRoute" -> "clear_ambulance_route"]

\* C11: while the transport is open, a call of dispatchAmbulance, createIncident,
\* clearIncident or clearAmbulanceRoute writes exactly one frame, of the type of
\* the command, and leaves nodes, incidents, routes and selection unchanged;
\* the collections of a mounted client change only when a city_update,
\* incident_update or ambulance_route_update is processed.
CommandsNotOptimistic ==
    /\ [][(last'.op = "command" /\ last'.open /\ last'.cmd \in DOMAIN CommandType)
            => /\ last'.wrote
               /\ last'.frame.type = CommandType[last'.cmd]
               /\ calls' \notin wire /\ wire' = wire \cup {calls'}
               /\ UNCHANGED <<nodes, incidents, routes, selected>>]_vars
    /\ [][(mounted /\ mounted' /\ <<nodes, incidents, routes>>' # <<nodes, incidents, routes>>)
            => /\ last'.op = "message"
               /\ last'.frame.type \in {"city_update", "incident_update",
                                        "ambulance_route_update"}]_vars

\* createIncident has been called on an open transport: the frame is on the
\* wire and the store holds no incident
IncidentCommandWritten ==
    /\ last.op = "command" /\ last.open /\ last.cmd = "createIncident"
    /\ last.frame.type = "incident_create"
    /\ calls \in wire
    /\ nodes # <<>> /\ incidents = <<>>

----------------------------------------------------------------------------
(* The replay buffer *)

\* C12: the replay buffer never holds more than its capacity, and it is the
\* most recent snapshots appended, in the order they were appended: once one
\* more than the capacity have been recorded, the first of them is gone.
ReplayFifoBound ==
    /\ Len(buffer) <= ReplayCapacity
    /\ buffer = SubSeq(recTail, Len(recTail) - Len(buffer) + 1, Len(recTail))
    /\ Len(buffer) = IF Len(recTail) > ReplayCapacity THEN ReplayCapacity ELSE Len(recTail)

\* one snapshot more than the capacity has been recorded, and the first was evicted
ReplayEvictedFirst ==
    /\ Len(recTail) = ReplayCapacity + 1
    /\ Len(buffer) = ReplayCapacity
    /\ recTail[1] = 1 /\ buffer[1] = 2
    /\ buffer[Len(buffer)] = latest
    /\ \A k \in 1..Len(buffer) : buffer[k] # 1

----------------------------------------------------------------------------
(* The selection (useCityData) *)

\* C13: when a city_update is processed while no node is selected, the
\* selection becomes the first node of its list, and stays unset when the
\* list is empty.
DefaultSelection ==
    (client = "service" /\ mounted /\ last.op = "message"
        /\ last.frame.type = "city_update" /\ last.sel = "none")
      => selected = IF last.frame.nodes # <<>> THEN last.frame.nodes[1] ELSE "none"

\* a snapshot with the nodes A, B has been processed with no selection: A is selected
FirstNodeSelected ==
    /\ client = "service" /\ mounted
    /\ last.op = "message" /\ last.frame.type = "city_update" /\ last.sel = "none"
    /\ last.frame.nodes = <<"A", "B">>
    /\ selected = "A" /\ nodes = <<"A", "B">>

----------------------------------------------------------------------------
(* Teardown *)

\* no reconnect timer and no heartbeat timer is pending
NoTimerPending == hookTimer = 0 /\ svcTimers = 0 /\ pings = 0

\* nothing that a torn down client may still change
TornDownLeaves ==
    [][(~mounted /\ ~mounted')
        => UNCHANGED <<nodes, incidents, routes, events, selected,
                       status, lastError, uiConnected, uiError>>]_vars

\* C14: once the client is torn down no timer is pending, and no event or
\* timer callback delivered afterwards changes the store, the selection or
\* the connection status.
TeardownSafety == [](~mounted => NoTimerPending) /\ TornDownLeaves

----------------------------------------------------------------------------
(* Order of the collections *)

\* the entries of s whose id is not id, in their order
Others(s, id) == SelectSeq(s, LAMBDA x : x.id # id)

\* the step processes an update of the given type in the mounted hook
HookMerges(t) ==
    /\ client = "hook" /\ mounted
    /\ last'.op = "message" /\ last'.frame.json = "object" /\ last'.frame.type = t

\* C15: after an incident_update (ambulance_route_update) the upserted entry
\* is the first of the collection, and the entries of the other ids follow it
\* as they were before, none removed and in the same order.
UpsertOrdering ==
    /\ [][HookMerges("incident_update")
            => /\ incidents' # <<>>
               /\ Head(incidents') = last'.frame.item
               /\ Tail(incidents') = Others(incidents, last'.frame.item.id)
               /\ routes' = routes]_vars
    /\ [][HookMerges("ambulance_route_update")
            => /\ routes' # <<>>
               /\ Head(routes') = last'.frame.item
               /\ Tail(routes') = Others(routes, last'.frame.item.id)
               /\ incidents' = incidents]_vars

\* an incident that was last in the collection has been updated: it is first
\* now, before the two others
UpsertedToFront ==
    /\ client = "hook" /\ mounted
    /\ last.op = "message" /\ last.frame.type = "incident_update"
    /\ last.frame.item = Item("X", "cleared") /\ last.prior = Item("X", "active")
    /\ incidents = <<Item("X", "cleared"), Item("Z", "active"), Item("Y", "cleared")>>

----------------------------------------------------------------------------
(* The attempt counter *)

\* a socket opens in this step
OpenEvent == \E s \in Slots : socks[s] = "CONNECTING" /\ socks'[s] = "OPEN"

\* C16: a transport-open event sets the status to connected and the attempt
\* counter to zero; the first reconnect scheduled after it is attempt 1 with
\* the delay of attempt 1; no other event, a pong or any other message
\* included, lowers the counter.
OpenResetsBackoff ==
    /\ [][OpenEvent
            => /\ attempts' = 0
               /\ (client = "hook" /\ mounted) => status' = "connected"
               /\ client = "service" => isConnected'
               /\ (client = "service" /\ mounted) => uiConnected']_vars
    /\ [][(attempts = 0 /\ attempts' # 0)
            => /\ client = "hook" => (attempts' = 1 /\ hookTimer' = ReconnectIntervalMs)
               /\ client = "service" => (lastDelay' = SvcReconnectInterval /\ svcTimers' > 0)]_vars
    /\ [][attempts' < attempts => OpenEvent]_vars

\* the hook's transport has opened again after reconnect attempts
OpenedAfterReconnect ==
    /\ client = "hook" /\ mounted
    /\ last.op = "open" /\ last.result = "reconnected"
    /\ attempts = 0 /\ status = "connected" /\ TransportOpen

\* C17  Automatic recovery.  The transport was lost: the last event is a close or
\* error event of the current transport, no disconnect() was called for it (the
\* consumer is mounted), and the attempt counter was below the maximum.
TransportLost ==
    /\ mounted
    /\ last.op = "lost" /\ last.open /\ last.result = "below_max"

\* connect() has run since: the lost socket is no longer the current transport
ConnectionAttempted ==
    \/ ~mounted
    \/ wsRef = 0
    \/ socks[wsRef] \in {"CONNECTING", "OPEN"}

\* C17: at such a loss the status leaves connected, and a new connection attempt
\* follows eventually, the reconnect timeout being fair.
AutomaticRecovery ==
    /\ [][TransportLost'
            => /\ client = "hook" => status' # "connected"
               /\ client = "service" => (~isConnected' /\ ~uiConnected')]_vars
    /\ (TransportLost ~> ConnectionAttempted)

\* C18  Heartbeat lifetime.  In the service a ping interval is alive only while
\* the connection is connected, at most one is alive at a time, and a tick
\* writes a ping only to an open socket.
HeartbeatLifetime ==
    client = "service"
        => /\ pings > 0 => isConnected
           /\ pings <= 1
           /\ (last.op = "heartbeat" /\ last.wrote) => last.open

\* C19  Selection stability.  Once a node id is selected, no inbound message
\* changes the selection, whatever node list it carries.
SelectionStability ==
    [][(selected # "none" /\ last'.op = "message") => selected' = selected]_vars

\* C20  Event log merge.  The hook has processed a city_update.
CityUpdateProcessed ==
    /\ client = "hook" /\ mounted
    /\ last'.op = "message" /\ last'.frame.type = "city_update"
    /\ ~HookParseFails(last'.frame) /\ ~HookThrows(last'.frame)

\* C20: the retained log is then the previous log followed by the message's
\* event_log_tail with oldest entries dropped first (a suffix of the two in
\* sequence), and a message with an empty tail discards nothing.
EventLogMerge ==
    [][CityUpdateProcessed
         => LET all == events \o last'.frame.events IN
            /\ events' = SliceLast(all, Len(events'))
            /\ last'.frame.events = <<>> => events' = events]_vars

\* C20 (as the code has it): on a city_update the hook's event log becomes the
\* message's event_log_tail, whatever it held before, and nothing else changes
\* the log.
EventLogReplaced ==
    /\ [][CityUpdateProcessed => events' = last'.frame.events]_vars
    /\ [][events' # events => CityUpdateProcessed]_vars

\* a city_update with an empty tail has emptied a log that held entries
EventLogOverwritten ==
    /\ client = "hook" /\ mounted
    /\ last.op = "message" /\ last.frame.type = "city_update"
    /\ last.log # <<>>
    /\ last.frame.events = <<>> /\ events = <<>>

----------------------------------------------------------------------------
(* Order of the merge *)

\* the collections a message is merged into
Collections == <<nodes, incidents, routes, events>>

\* the collections after frame f by the client's rules: a snapshot replaces
\* them; in the hook an incremental update puts its item first and keeps the
\* others; every other frame leaves them as they are
Applied(f) ==
    IF f.type = "city_update"
    THEN IF client = "hook" THEN <<f.nodes, f.incidents, f.routes, f.events>>
         ELSE <<f.nodes, f.incidents, f.routes, events>>
    ELSE IF client = "hook" /\ f.type = "incident_update"
    THEN <<nodes, <<f.item>> \o Others(incidents, f.item.id), routes, events>>
    ELSE IF client = "hook" /\ f.type = "ambulance_route_update"
    THEN <<nodes, incidents, <<f.item>> \o Others(routes, f.item.id), events>>
    ELSE Collections

----------------------------------------------------------------------------
(* The replay page *)

\* C22  Replay buffer frame.  The buffer changes only in a step in which a new
\* snapshot is handed to the page while recording is on, and no step of the
\* page changes the store.
ReplayBufferFrame ==
    /\ [][buffer' # buffer => (latest' # latest /\ isRecording)]_vars
    /\ [][client = "replay" => UNCHANGED store]_vars

Current ==
    IF Len(buffer) = 0 THEN 0
    ELSE buffer[(IF playIndex < MaxIndex THEN playIndex ELSE MaxIndex) + 1]

\* C24  Seek pauses.  After a seek to an index of the buffer the cursor is that
\* index and the page is not playing, whether or not it was playing before;
\* the snapshot shown is the buffer's entry at that index; and no tick moves
\* the cursor while the page is not playing.
SeekPauses ==
    /\ [][last'.op = "seek"
            => /\ playIndex' = last'.index
               /\ ~isPlaying'
               /\ Len(buffer') > 0 => Current' = buffer'[last'.index + 1]]_vars
    /\ [][last'.op = "tick" => isPlaying]_vars

----------------------------------------------------------------------------
(* Exhaustion in the service *)

\* the service has used up its attempts: the counter is at the maximum, no
\* reconnect timeout is pending and no socket is connecting or open
SvcGaveUp ==
    /\ client = "service" /\ mounted
    /\ attempts >= SvcMaxReconnectAttempts
    /\ svcTimers = 0
    /\ \A s \in Slots : socks[s] \notin {"CONNECTING", "OPEN"}

\* C25  Exhaustion is reported.  Once the service has used up its attempts it
\* has emitted 'maxReconnectAttemptsReached' and the consumer no longer shows
\* the error of a connection that is being re-established.
ExhaustionReported ==
    SvcGaveUp => (last.result = "maxReconnectAttemptsReached" /\ uiError # "lost")

----------------------------------------------------------------------------
(* Sockets and reconnects *)

\* the sockets that are connecting or open; each has its handlers installed
LiveSockets == {s \in Slots : socks[s] \in {"CONNECTING", "OPEN"}}

\* C26  Single live transport.  A client has at most one socket that is
\* connecting or open, and that socket is its current transport: connect()
\* leaves no earlier socket behind that still delivers events.
SingleLiveTransport ==
    /\ Cardinality(LiveSockets) <= 1
    /\ \A s \in LiveSockets : s = wsRef

\* C27  One reconnect per loss.  In the service one connection failure, an error
\* event followed by a close event, raises reconnectAttempts by exactly one
\* and adds exactly one reconnect timeout.
OneReconnectPerLoss ==
    [][(client = "service" /\ last'.op = "lost" /\ attempts' # attempts)
         => (attempts' = attempts + 1 /\ svcTimers' = svcTimers + 1)]_vars

\* C28  No reconnect while connected.  In the hook no reconnect timer is pending
\* while the status is connected, and a reconnect timer never closes an open
\* current socket.
NoReconnectWhileConnected ==
    /\ [](client = "hook" /\ mounted /\ status = "connected" => hookTimer = 0)
    /\ [][(client = "hook" /\ wsRef # 0 /\ socks[wsRef] = "OPEN" /\ wsRef' # wsRef)
            => hookTimer = 0]_vars

\* C29  Record once.  Each snapshot received while recording is on is in the
\* replay buffer once: no two adjacent entries of the buffer are the same
\* received snapshot.
RecordOnce ==
    \A k \in 1..(Len(buffer) - 1) : buffer[k] # buffer[k + 1]

\* C30  selectNode frame.  A change of the selection, by setSelectedIntersectionId
\* or by the default of the first snapshot, has no consequence for the transport:
\* when the handler that closes over the selection is registered anew the
\* sockets and the connection are as before; and a selection by the page
\* leaves the collections unchanged.
SelectNodeFrame ==
    /\ [][(client = "service" /\ mounted /\ mounted' /\ handlerSel' # handlerSel)
            => (socks' = socks /\ wsRef' = wsRef /\ isConnected' = isConnected)]_vars
    /\ [][(selected' # selected /\ last'.op # "message" /\ mounted /\ mounted')
            => UNCHANGED <<nodes, incidents, routes>>]_vars

=============================================================================
